---- MODULE Spec2Model ----
(***************************************************************************)
(* surepy: the Surepy facade of src/surepy/__init__.py.                    *)
(*                                                                         *)
(* The state is the facade's entity map (self._entities), the API client's *)
(* resource cache entry for the bulk sync resource (self.sac.resources),   *)
(* and the frame of the public operation in progress.  Every               *)
(* `await self.sac.call(...)` takes its response from the environment.     *)
(* JSON objects are functions from string keys; a datapoint is a number.   *)
(***************************************************************************)
EXTENDS Integers, Sequences, FiniteSets, TLC

\* ------------------------------------------------------------------ bounds
MaxPairs == 2
MaxDatapoints == 2

EntityIds == {1, 2}
HouseholdIds == {1, 2}
Datapoints == {1, 2}

\* ------------------------------------------------------- type codes (enum)
MappedTypes ==
    {"CAT_FLAP", "PET_FLAP", "FEEDER", "FEEDER_LITE", "FELAQUA", "HUB", "PET"}

UnmappedProductId == "OTHER"

DefaultProductId == "0"

ProductIds == MappedTypes \cup {UnmappedProductId}

\* EntityType(int(code)): the closed enumeration with its unknown fallback.
EntityType(code) == IF code \in MappedTypes THEN code ELSE "UNKNOWN"

\* entity.get("product_id", 0)
ProductIdOf(entity) ==
    IF "product_id" \in DOMAIN entity THEN entity.product_id ELSE DefaultProductId

\* ------------------------------------------------------------ JSON values
EmptyDict == [k \in {} |-> TRUE]

Null == [null |-> TRUE]

Truthy(json) == json # Null /\ DOMAIN json # {}

\* d.get(key, default)
Get(d, key, default) == IF key \in DOMAIN d THEN d[key] ELSE default

\* d[key] = value
SetItem(d, key, value) == (key :> value) @@ d

RECURSIVE SeqsUpTo(_, _)
SeqsUpTo(S, n) ==
    IF n = 0 THEN {<<>>}
    ELSE LET shorter == SeqsUpTo(S, n - 1)
         IN  shorter \cup {Append(s, x) : s \in shorter, x \in S}

Range(s) == {s[i] : i \in DOMAIN s}

\* The records of the bulk sync payload: id, household_id and, unless the
\* record carries none, product_id.
Records ==
    [id : EntityIds, product_id : ProductIds, household_id : HouseholdIds]
        \cup [id : EntityIds, household_id : HouseholdIds]

\* One pet/device pairing of a household report.  The three datapoint lists
\* hold at most MaxDatapoints datapoints between them.
DatapointLists == SeqsUpTo(Datapoints, MaxDatapoints)

Pairs ==
    {p \in [pet_id : EntityIds, device_id : EntityIds,
            movement : DatapointLists, feeding : DatapointLists,
            drinking : DatapointLists] :
        Len(p.movement) + Len(p.feeding) + Len(p.drinking) <= MaxDatapoints}

\* ---------------------------------------------------------------- entities
Flap(data) == [kind |-> "Flap", data |-> data]
Feeder(data) == [kind |-> "Feeder", data |-> data]
Felaqua(data) == [kind |-> "Felaqua", data |-> data]
Hub(data) == [kind |-> "Hub", data |-> data]
Pet(data) == [kind |-> "Pet", data |-> data]

\* entity.type, the tag of the wrapped record
TypeOf(e) == EntityType(ProductIdOf(e.data))

\* isinstance(e, SurepyDevice) / isinstance(e, Pet)
IsDevice(e) == e.kind \in {"Flap", "Feeder", "Felaqua", "Hub"}
IsPet(e) == e.kind = "Pet"

\* ------------------------------------------------------------- API client
MESTART_RESOURCE == "me/start"

NoDataResponse == [error |-> "x"]

\* sac.call: a non-null response is kept in the resource cache.
CacheAfterCall(res, resource, response) ==
    IF response = Null THEN res ELSE SetItem(res, resource, response)

RECURSIVE SubSeqs(_)
SubSeqs(s) ==
    IF s = <<>> THEN {<<>>}
    ELSE LET rest == SubSeqs(Tail(s))
         IN  rest \cup {<<Head(s)>> \o t : t \in rest}

\* What the bulk sync resource may answer while the account holds `c`.
SyncResponses(c) ==
    {Null, NoDataResponse, [data |-> EmptyDict]}
        \cup {[data |-> [devices |-> d, pets |-> p]] :
                d \in SubSeqs(c.devices), p \in SubSeqs(c.pets)}

\* ------------------------------------------------------------------- state
VARIABLES
    cloud,           \* the account's device and pet records (environment)
    entities,        \* self._entities
    resources,       \* self.sac.resources
    pc,              \* "ready" | "households" | "pairs"
    op,              \* the public operation in progress, or the last one
    raw_data,        \* get_entities: raw_data
    inserted,        \* get_entities: the ids stored, in order, by this pass
    household_ids,   \* get_entities: household_ids
    fetched,         \* household reports fetched by this operation, in order
    sync_calls,      \* bulk sync fetches issued by this operation
    remaining,       \* get_actions: pairings of `data` not yet iterated
    latest_actions,  \* get_actions: latest_actions
    last,            \* get_actions: what the latest pairing did
    result           \* what the operation returned or raised

vars == <<cloud, entities, resources, pc, op, raw_data, inserted, household_ids,
          fetched, sync_calls, remaining, latest_actions, last, result>>

Unbound == [unbound |-> TRUE]

NoPair == [ev |-> "none"]

Returned(value) == [status |-> "returned", value |-> value]

\* An exception leaving the operation, with the source line that raised it.
Raised(error, line) == [status |-> "raised", error |-> error, line |-> line]

Operation(name, refresh, id) == [name |-> name, refresh |-> refresh, id |-> id]

\* ------------------------------------------------------------ get_entities
\* Mutant of NeedsFetch: the refresh flag is not read.
NeedsFetchIgnoringRefresh(res, refresh) == MESTART_RESOURCE \notin DOMAIN res

\* `MESTART_RESOURCE not in self.sac.resources or refresh`
NeedsFetch(res, refresh) == MESTART_RESOURCE \notin DOMAIN res \/ refresh

\* raw_data after the fetch branch: bound only when the response is truthy.
RawDataFetched(response) ==
    IF Truthy(response) THEN Get(response, "data", EmptyDict) ELSE Unbound

\* raw_data after the cache branch.
RawDataCached(res) == Get(res[MESTART_RESOURCE], "data", EmptyDict)

\* raw_data.get("devices", []) + raw_data.get("pets", [])
PayloadRecords(data) == Get(data, "devices", <<>>) \o Get(data, "pets", <<>>)

\* The if/elif chain: surepy_entities after the branch for `entity`.
Construct(surepy_entities, entity) ==
    LET entity_type == EntityType(ProductIdOf(entity))
        entity_id == entity.id
    IN  IF entity_type \in {"CAT_FLAP", "PET_FLAP"}
          THEN SetItem(surepy_entities, entity_id, Flap(entity))
        ELSE IF entity_type \in {"FEEDER", "FEEDER_LITE"}
          THEN SetItem(surepy_entities, entity_id, Feeder(entity))
        ELSE IF entity_type = "FELAQUA"
          THEN SetItem(surepy_entities, entity_id, Felaqua(entity))
        ELSE IF entity_type = "HUB"
          THEN SetItem(surepy_entities, entity_id, Hub(entity))
        ELSE IF entity_type = "PET"
          THEN SetItem(surepy_entities, entity_id, Pet(entity))
        ELSE surepy_entities

\* Mutant of AddHousehold: the households of the whole entity map are added.
AddHouseholdsOfMap(hids, e) ==
    hids \cup {e.data.household_id}
         \cup {entities[i].data.household_id : i \in DOMAIN entities}

\* household_ids.add(int(surepy_entities[entity_id].household_id))
AddHousehold(hids, e) == hids \cup {e.data.household_id}

\* Mutant of StoreEntity: the map is rebuilt from the record at hand.
StoreEntityPurging(ents, entity_id, e) == (entity_id :> e)

\* self._entities[entity_id] = surepy_entities[entity_id]
StoreEntity(ents, entity_id, e) == SetItem(ents, entity_id, e)

\* One iteration of the classification loop.  `st.error` is set when
\* surepy_entities[entity_id] raises.
ClassifyRecord(st, entity) ==
    LET local == Construct(st.surepy_entities, entity)
        entity_id == entity.id
    IN  IF entity_id \notin DOMAIN local
          THEN [st EXCEPT !.error = "KeyError"]
          ELSE [st EXCEPT
                  !.surepy_entities = local,
                  !.household_ids = AddHousehold(@, local[entity_id]),
                  !.entities = StoreEntity(@, entity_id, local[entity_id]),
                  !.inserted = Append(@, entity_id)]

RECURSIVE Classify(_, _)
Classify(st, records) ==
    IF records = <<>> \/ st.error # "" THEN st
    ELSE Classify(ClassifyRecord(st, Head(records)), Tail(records))

ClassifyStart(ents) ==
    [entities |-> ents, surepy_entities |-> EmptyDict, household_ids |-> {},
     inserted |-> <<>>, error |-> ""]

\* [pet for pet in value.values() if isinstance(pet, Pet)]
PetsOf(value) == [k \in {i \in DOMAIN value : IsPet(value[i])} |-> value[k]]

\* [device for device in value.values() if isinstance(device, SurepyDevice)]
DevicesOf(value) == [k \in {i \in DOMAIN value : IsDevice(value[i])} |-> value[k]]

\* get_device after its membership test: self._entities[device_id] raises
\* when the id is (still) absent; a Pet yields None.
DeviceLookup(ents, device_id) ==
    IF device_id \notin DOMAIN ents THEN Raised("KeyError", 326)
    ELSE IF TypeOf(ents[device_id]) # "PET" THEN Returned(ents[device_id])
    ELSE Returned(Null)

\* What the public operation `o` hands back once get_entities returned `value`.
PassResult(o, value, ents) ==
    CASE o.name = "get_entities" -> Returned(value)
      [] o.name = "get_pets" -> Returned(PetsOf(value))
      [] o.name = "get_devices" -> Returned(DevicesOf(value))
      [] o.name = "get_device" -> DeviceLookup(ents, o.id)

Running == [status |-> "running"]

\* get_entities up to the end of the classification loop.
BeginPass(name, refresh, id) ==
    /\ pc = "ready"
    /\ \E response \in (IF NeedsFetch(resources, refresh)
                          THEN SyncResponses(cloud) ELSE {Null}) :
         LET fetch == NeedsFetch(resources, refresh)
             raw == IF fetch THEN RawDataFetched(response)
                             ELSE RawDataCached(resources)
             st == Classify(ClassifyStart(entities), PayloadRecords(raw))
             o == Operation(name, refresh, id)
         IN  /\ op' = o
             /\ resources' = IF fetch
                               THEN CacheAfterCall(resources, MESTART_RESOURCE, response)
                               ELSE resources
             /\ sync_calls' = IF fetch THEN 1 ELSE 0
             /\ raw_data' = raw
             /\ fetched' = <<>>
             /\ remaining' = 0
             /\ latest_actions' = EmptyDict
             /\ last' = NoPair
             /\ IF raw = Unbound
                  THEN /\ result' = Raised("UnboundLocalError", 354)
                       /\ pc' = "ready"
                       /\ UNCHANGED entities
                       /\ inserted' = <<>>
                       /\ household_ids' = {}
                ELSE IF ~Truthy(raw)
                  THEN /\ result' = PassResult(o, EmptyDict, entities)
                       /\ pc' = "ready"
                       /\ UNCHANGED entities
                       /\ inserted' = <<>>
                       /\ household_ids' = {}
                ELSE /\ entities' = st.entities
                     /\ inserted' = st.inserted
                     /\ household_ids' = st.household_ids
                     /\ IF st.error # ""
                          THEN result' = Raised(st.error, 380) /\ pc' = "ready"
                          ELSE result' = Running /\ pc' = "households"
    /\ UNCHANGED cloud

get_entities == \E refresh \in BOOLEAN : BeginPass("get_entities", refresh, 0)

get_pets == BeginPass("get_pets", FALSE, 0)

get_devices == BeginPass("get_devices", FALSE, 0)

FrameReset ==
    /\ raw_data' = Unbound
    /\ inserted' = <<>>
    /\ household_ids' = {}
    /\ fetched' = <<>>
    /\ sync_calls' = 0
    /\ remaining' = 0
    /\ latest_actions' = EmptyDict
    /\ last' = NoPair

get_device ==
    \E device_id \in EntityIds :
        IF device_id \notin DOMAIN entities
          THEN BeginPass("get_device", FALSE, device_id)
          ELSE /\ pc = "ready"
               /\ op' = Operation("get_device", FALSE, device_id)
               /\ result' = DeviceLookup(entities, device_id)
               /\ FrameReset
               /\ UNCHANGED <<cloud, entities, resources, pc>>

\* ------------------------------------------------------------- get_actions
\* What a household report resource may answer: nothing, a body without a
\* "data" section, or a "data" list of n pairings (each pairing is taken from
\* the environment when the loop reaches it).
ReportResponses(c) == {Null, NoDataResponse} \cup {[data |-> n] : n \in 0..c.pairs}

\* The pairings the account's reports may hold.
PairsOf(c) ==
    {p \in Pairs :
        Len(p.movement) + Len(p.feeding) + Len(p.drinking) <= c.datapoints}

\* `await self.sac.call(...) or {}`
OrEmpty(response) == IF Truthy(response) THEN response ELSE EmptyDict

\* Mutant of Pop: the first element, as list.pop(0) takes it.
PopFirst(datapoints) == datapoints[1]

\* list.pop(): the last element
Pop(datapoints) == datapoints[Len(datapoints)]

NoAction == [key |-> "none", datapoint |-> 0]

\* Mutant of Branch: the device's type is not tested.
BranchAnyType(device, pair) ==
    IF pair.movement # <<>>
      THEN [key |-> "move", datapoint |-> pair.movement[Len(pair.movement)]]
    ELSE IF pair.feeding # <<>>
      THEN [key |-> "lunch", datapoint |-> pair.feeding[Len(pair.feeding)]]
    ELSE IF pair.drinking # <<>>
      THEN [key |-> "drink", datapoint |-> pair.drinking[Len(pair.drinking)]]
    ELSE NoAction

\* The if/elif chain of the loop body: the key written and the datapoint.
Branch(device, pair) ==
    IF TypeOf(device) \in {"CAT_FLAP", "PET_FLAP"} /\ pair.movement # <<>>
      THEN [key |-> "move", datapoint |-> Pop(pair.movement)]
    ELSE IF TypeOf(device) \in {"FEEDER", "FEEDER_LITE"} /\ pair.feeding # <<>>
      THEN [key |-> "lunch", datapoint |-> Pop(pair.feeding)]
    ELSE IF TypeOf(device) = "FELAQUA" /\ pair.drinking # <<>>
      THEN [key |-> "drink", datapoint |-> Pop(pair.drinking)]
    ELSE NoAction

\* A value of latest_actions: the device's wrapped record itself (the same
\* object as self._entities[device_id]._data) or a datapoint.
RecordOf(device_id) == [kind |-> "record", device_id |-> device_id]
DatapointValue(dp) == [kind |-> "datapoint", value |-> dp]

\* Mutant of ActionValue: the datapoint is written into the record only
\* (`latest_actions[pet_id]["move"] = latest_datapoint`).
ActionValueRecord(device_id, branch) == RecordOf(device_id)

\* latest_actions[pet_id] at the end of the loop body: line 246, then the
\* chained assignment `latest_actions[pet_id] = ..._data[key] = latest_datapoint`.
ActionValue(device_id, branch) ==
    IF branch.key = "none" THEN RecordOf(device_id)
    ELSE DatapointValue(branch.datapoint)

\* self._entities[device_id]._data[key] = latest_datapoint
WriteDatapoint(ents, device_id, branch) ==
    IF branch.key = "none" THEN ents
    ELSE [ents EXCEPT ![device_id].data = SetItem(@, branch.key, branch.datapoint)]

\* The datapoint list the conditions of the loop body read for `device` (the
\* right operand of each `and` is evaluated only for a matching type).
ReadList(device, pair) ==
    IF TypeOf(device) \in {"CAT_FLAP", "PET_FLAP"}
      THEN [key |-> "movement", datapoints |-> pair.movement]
    ELSE IF TypeOf(device) \in {"FEEDER", "FEEDER_LITE"}
      THEN [key |-> "feeding", datapoints |-> pair.feeding]
    ELSE IF TypeOf(device) = "FELAQUA"
      THEN [key |-> "drinking", datapoints |-> pair.drinking]
    ELSE [key |-> "none", datapoints |-> <<>>]

\* The pairing as far as the loop body evaluated it.
Evaluated(ents, pair) ==
    [ev |-> "pair", pet_id |-> pair.pet_id, device_id |-> pair.device_id,
     read |-> IF pair.device_id \in DOMAIN ents
                THEN ReadList(ents[pair.device_id], pair)
                ELSE [key |-> "none", datapoints |-> <<>>]]

\* Mutant of ProcessPair: a pairing with an unknown device is skipped.
ProcessPairSkipping(ents, latest, pair) ==
    IF pair.device_id \notin DOMAIN ents
      THEN [error |-> "", entities |-> ents, latest_actions |-> latest]
      ELSE LET branch == Branch(ents[pair.device_id], pair)
           IN  [error |-> "",
                entities |-> WriteDatapoint(ents, pair.device_id, branch),
                latest_actions |->
                    SetItem(latest, pair.pet_id, ActionValue(pair.device_id, branch))]

\* One iteration of `for pair in data`.
ProcessPair(ents, latest, pair) ==
    IF pair.device_id \notin DOMAIN ents
      THEN [error |-> "KeyError", entities |-> ents, latest_actions |-> latest]
      ELSE LET branch == Branch(ents[pair.device_id], pair)
           IN  [error |-> "",
                entities |-> WriteDatapoint(ents, pair.device_id, branch),
                latest_actions |->
                    SetItem(latest, pair.pet_id, ActionValue(pair.device_id, branch))]

PassOps == {"get_entities", "get_pets", "get_devices", "get_device"}

\* get_actions up to `data = pet_device_pairs["data"]`; `log` holds the
\* household reports the running operation fetched before this one.
FetchReport(log, household_id, response) ==
    /\ fetched' = Append(log, household_id)
    /\ latest_actions' = EmptyDict
    /\ last' = [ev |-> "report", response |-> response]
    /\ remaining' = IF "data" \in DOMAIN OrEmpty(response) THEN response.data ELSE 0

\* get_actions called by the user; the only_latest flag is not read.
GetActions(household_id, only_latest) ==
    /\ pc = "ready"
    /\ \E response \in ReportResponses(cloud) :
         /\ op' = Operation("get_actions", FALSE, household_id)
         /\ FetchReport(<<>>, household_id, response)
         /\ IF "data" \in DOMAIN OrEmpty(response)
              THEN pc' = "pairs" /\ result' = Running
              ELSE pc' = "ready" /\ result' = Returned(EmptyDict)
    /\ raw_data' = Unbound
    /\ inserted' = <<>>
    /\ household_ids' = {}
    /\ sync_calls' = 0
    /\ UNCHANGED <<cloud, entities, resources>>

get_actions ==
    \E household_id \in HouseholdIds, only_latest \in BOOLEAN :
        GetActions(household_id, only_latest)

\* latest_actions: get_actions(only_latest=True)
call_latest_actions == \E household_id \in HouseholdIds : GetActions(household_id, TRUE)

\* all_actions: get_actions(only_latest=False)
call_all_actions == \E household_id \in HouseholdIds : GetActions(household_id, FALSE)

\* get_entities: `for household_id in household_ids: await self.get_actions(...)`
enrich ==
    /\ pc = "households"
    /\ \E household_id \in household_ids \ Range(fetched),
          response \in ReportResponses(cloud) :
         /\ FetchReport(fetched, household_id, response)
         /\ pc' = IF "data" \in DOMAIN OrEmpty(response) THEN "pairs" ELSE "households"
    /\ UNCHANGED <<cloud, entities, resources, op, raw_data, inserted,
                   household_ids, sync_calls, result>>

\* The loop body of get_actions for the next pairing of the report.
process_pair ==
    /\ pc = "pairs"
    /\ remaining > 0
    /\ \E pair \in PairsOf(cloud) :
         LET done == ProcessPair(entities, latest_actions, pair)
         IN  /\ entities' = done.entities
             /\ latest_actions' = done.latest_actions
             /\ last' = Evaluated(entities, pair)
             /\ IF done.error # ""
                  THEN /\ result' = Raised(done.error, 243)
                       /\ pc' = "ready"
                       /\ remaining' = 0
                  ELSE /\ UNCHANGED <<result, pc>>
                       /\ remaining' = remaining - 1
    /\ UNCHANGED <<cloud, resources, op, raw_data, inserted, household_ids,
                   fetched, sync_calls>>

\* `return latest_actions`: to the user, or back into get_entities' loop,
\* which drops the value.
return_actions ==
    /\ pc = "pairs"
    /\ remaining = 0
    /\ last' = NoPair
    /\ IF op.name = "get_actions"
         THEN pc' = "ready" /\ result' = Returned(latest_actions)
         ELSE pc' = "households" /\ UNCHANGED result
    /\ UNCHANGED <<cloud, entities, resources, op, raw_data, inserted,
                   household_ids, fetched, sync_calls, remaining, latest_actions>>

\* `return self._entities`, and what get_pets, get_devices and get_device make
\* of it.
return_entities ==
    /\ pc = "households"
    /\ household_ids \ Range(fetched) = {}
    /\ pc' = "ready"
    /\ result' = PassResult(op, entities, entities)
    /\ UNCHANGED <<cloud, entities, resources, op, raw_data, inserted,
                   household_ids, fetched, sync_calls, remaining, latest_actions,
                   last>>

\* ------------------------------------------------------------ passthroughs
RawResponses == {Null, [data |-> "raw"]}

Passthrough(name, id, value) ==
    /\ pc = "ready"
    /\ op' = Operation(name, FALSE, id)
    /\ result' = Returned(value)
    /\ FrameReset
    /\ UNCHANGED <<cloud, entities, resources, pc>>

\* get_timeline: `await self.sac.call(...) or {}`
get_timeline == \E response \in RawResponses : Passthrough("get_timeline", 0, OrEmpty(response))

\* get_notification: the response as it is
get_notification == \E response \in RawResponses : Passthrough("get_notification", 0, response)

\* get_report: the household's or the pet's report, `or {}`
get_report ==
    \E household_id \in HouseholdIds, response \in RawResponses :
        Passthrough("get_report", household_id, OrEmpty(response))

\* pets_details: `await self.sac.get_pets()`
pets_details == \E response \in RawResponses : Passthrough("pets_details", 0, response)

\* ----------------------------------------------------------- specification
\* The accounts explored.  Each holds at most one device record (id 1,
\* household 1, any product_id or none) and at most one pet record.
DeviceRecords == {r \in Records : r.id = 1 /\ r.household_id = 1}

PetRecords == {r \in Records : "product_id" \in DOMAIN r => r.product_id = "PET"}

\* Accounts of every type code and household spread, whose household reports
\* list at most one pairing and no datapoints.
Clouds ==
    [devices : SeqsUpTo(DeviceRecords, 1), pets : SeqsUpTo(PetRecords, 1),
     pairs : {1}, datapoints : {0}]

\* Accounts of one device of every type code, whose household reports list up
\* to MaxPairs pairings with up to MaxDatapoints datapoints each.
ReportClouds ==
    [devices : {<<r>> : r \in DeviceRecords}, pets : {<<>>},
     pairs : {MaxPairs}, datapoints : {MaxDatapoints}]

Start ==
    /\ entities = EmptyDict
    /\ resources = EmptyDict
    /\ pc = "ready"
    /\ op = Operation("none", FALSE, 0)
    /\ raw_data = Unbound
    /\ inserted = <<>>
    /\ household_ids = {}
    /\ fetched = <<>>
    /\ sync_calls = 0
    /\ remaining = 0
    /\ latest_actions = EmptyDict
    /\ last = NoPair
    /\ result = [status |-> "none"]

Init == cloud \in Clouds /\ Start

InitReports == cloud \in ReportClouds /\ Start

Next ==
    \/ get_entities
    \/ get_pets
    \/ get_devices
    \/ get_device
    \/ get_actions
    \/ call_latest_actions
    \/ call_all_actions
    \/ enrich
    \/ process_pair
    \/ return_actions
    \/ return_entities
    \/ get_timeline
    \/ get_notification
    \/ get_report
    \/ pets_details

Spec == Init /\ [][Next]_vars

SpecReports == InitReports /\ [][Next]_vars

\* ------------------------------------------------------------------ claims
IsMapped(record) == EntityType(ProductIdOf(record)) \in MappedTypes

\* The closed mapping from type code to entity variant.
VariantOf(type) ==
    CASE type \in {"CAT_FLAP", "PET_FLAP"} -> "Flap"
      [] type \in {"FEEDER", "FEEDER_LITE"} -> "Feeder"
      [] type = "FELAQUA" -> "Felaqua"
      [] type = "HUB" -> "Hub"
      [] type = "PET" -> "Pet"
      [] OTHER -> "none"

\* get_entities got a payload to classify.
Classifying(o, raw) == o.name \in PassOps /\ raw # Unbound /\ Truthy(raw)

MappedIds(records) == {records[i].id : i \in {j \in DOMAIN records : IsMapped(records[j])}}

HasUnmapped(records) == \E i \in DOMAIN records : ~IsMapped(records[i])

\* The step that starts get_entities and runs its classification loop.
PassStep == pc = "ready" /\ op'.name \in PassOps /\ raw_data' # Unbound /\ Truthy(raw_data')

\* C1: a record whose product_id is unmapped or missing is skipped: the call
\* does not raise because of it, the entity map gains exactly the ids of the
\* payload's mapped records, so the remaining records are still classified.
C1_UnmappedRecordSkipped ==
    [][(PassStep /\ HasUnmapped(PayloadRecords(raw_data')))
         => /\ ~(result'.status = "raised" /\ result'.line = 380)
            /\ DOMAIN entities' =
                 DOMAIN entities \cup MappedIds(PayloadRecords(raw_data'))]_vars

\* C2: when the bulk sync fetch yields no usable payload (a null response, or
\* a response or cached response with no or empty "data"), get_entities does
\* not raise, leaves the entity map unchanged, fetches no household report and
\* returns the existing entity map.
C2_NoPayloadSoftFailure ==
    [][(/\ pc = "ready"
        /\ op'.name = "get_entities"
        /\ (raw_data' = Unbound \/ ~Truthy(raw_data')))
         => /\ result' = Returned(entities)
            /\ entities' = entities
            /\ fetched' = <<>>
            /\ pc' = "ready"]_vars

\* The key a device of the given type receives, and the report list it is
\* taken from.
KeyFor(type) ==
    CASE type \in {"CAT_FLAP", "PET_FLAP"} -> "move"
      [] type \in {"FEEDER", "FEEDER_LITE"} -> "lunch"
      [] type = "FELAQUA" -> "drink"
      [] OTHER -> "none"

ListFor(type) ==
    CASE type \in {"CAT_FLAP", "PET_FLAP"} -> "movement"
      [] type \in {"FEEDER", "FEEDER_LITE"} -> "feeding"
      [] type = "FELAQUA" -> "drinking"
      [] OTHER -> "none"

Last(list) == list[Len(list)]

\* A pairing whose device is in the entity map has just been processed.
PairDone == last.ev = "pair" /\ last.device_id \in DOMAIN entities

\* ... and a datapoint was attached to the device's record.
Attached == PairDone /\ last.read.datapoints # <<>>

\* C3 (as amended): after a pairing is processed, the value under its pet id
\* is the attached datapoint itself, which the device's wrapped record also
\* holds under move/lunch/drink, when a datapoint was attached, and the
\* device's wrapped record when none was; get_actions returns that mapping.
C3_ReturnedValue ==
    /\ PairDone =>
         /\ last.pet_id \in DOMAIN latest_actions
         /\ latest_actions[last.pet_id] =
              IF Attached THEN DatapointValue(Last(last.read.datapoints))
              ELSE RecordOf(last.device_id)
         /\ Attached =>
              entities[last.device_id].data[KeyFor(TypeOf(entities[last.device_id]))]
                = Last(last.read.datapoints)
    /\ (pc = "ready" /\ op.name = "get_actions" /\ result.status = "returned")
         => result.value = latest_actions

\* C3 as stated: the value under the pet id is always the device's wrapped
\* record, never the bare datapoint.
C3_AlwaysWrappedRecord ==
    PairDone =>
        /\ last.pet_id \in DOMAIN latest_actions
        /\ latest_actions[last.pet_id] = RecordOf(last.device_id)

C3_Witness ==
    /\ pc = "ready"
    /\ op.name = "get_actions"
    /\ result.status = "returned"
    /\ \E a, b \in DOMAIN result.value :
         /\ result.value[a].kind = "datapoint"
         /\ result.value[b].kind = "record"

\* The step that processes one pairing whose device is in the entity map.
PairStep == pc = "pairs" /\ last'.ev = "pair" /\ last'.device_id \in DOMAIN entities

\* C4: a get_entities call with refresh=false made while the resource cache
\* holds the bulk sync resource issues no bulk-sync fetch and classifies the
\* cached payload; with refresh=true, or without a cached entry, it issues
\* exactly one bulk-sync fetch.
C4_FetchOnlyWhenNeeded ==
    [][/\ (pc = "ready" /\ op'.name \in PassOps
              /\ ~(op'.name = "get_device" /\ op'.id \in DOMAIN entities))
          => IF ~op'.refresh /\ MESTART_RESOURCE \in DOMAIN resources
               THEN /\ sync_calls' = 0
                    /\ resources' = resources
                    /\ raw_data' = Get(resources[MESTART_RESOURCE], "data", EmptyDict)
               ELSE sync_calls' = 1
       /\ pc # "ready" => sync_calls' = sync_calls]_vars

C4_Witness ==
    /\ op.name = "get_entities"
    /\ ~op.refresh
    /\ sync_calls = 0
    /\ pc = "ready"
    /\ result.status = "returned"
    /\ inserted # <<>>

LastMapped(records, id) ==
    LET at == {i \in DOMAIN records : records[i].id = id /\ IsMapped(records[i])}
    IN  records[CHOOSE i \in at : \A j \in at : j <= i]

\* C5: after get_entities classified a payload, every id carried by a mapped
\* record of the payload is a key of the entity map, and maps to the variant
\* (Flap, Feeder, Felaqua, Hub, Pet) of the last such record in payload order.
C5_VariantOfLastRecord ==
    Classifying(op, raw_data) =>
        \A id \in MappedIds(PayloadRecords(raw_data)) :
            /\ id \in DOMAIN entities
            /\ entities[id].kind =
                 VariantOf(EntityType(ProductIdOf(LastMapped(PayloadRecords(raw_data), id))))

\* C6: for a pairing whose device is a Flap with a non-empty movement list,
\* the last element of that list is written into the device's wrapped record
\* under `move`; likewise the last feeding datapoint under `lunch` for a
\* Feeder and the last drinking datapoint under `drink` for a Felaqua; no
\* other key and no other record is written for that pairing.
C6_LastDatapointWritten ==
    [][PairStep =>
         LET device_id == last'.device_id
             type == TypeOf(entities[device_id])
             list == last'.read.datapoints
         IN  /\ last'.read.key = ListFor(type)
             /\ (KeyFor(type) # "none" /\ list # <<>>) =>
                  entities' =
                    [entities EXCEPT
                       ![device_id].data = SetItem(@, KeyFor(type), Last(list))]]_vars

C6_Witness ==
    /\ PairDone
    /\ Len(last.read.datapoints) > 1
    /\ last.read.datapoints[1] # Last(last.read.datapoints)
    /\ \E key \in {"move", "lunch", "drink"} :
         /\ key \in DOMAIN entities[last.device_id].data
         /\ entities[last.device_id].data[key] = Last(last.read.datapoints)

\* The step that fetches a household report whose response has no "data".
NoDataStep ==
    /\ last'.ev = "report"
    /\ \/ pc = "ready" /\ op'.name = "get_actions"
       \/ pc = "households" /\ Len(fetched') = Len(fetched) + 1
    /\ (last'.response = Null \/ "data" \notin DOMAIN last'.response)

\* C7: a pairing whose type-relevant datapoint list is empty, or whose device
\* type is none of CAT_FLAP, PET_FLAP, FEEDER, FEEDER_LITE, FELAQUA, leaves
\* every wrapped record as it was; a report response with no "data" section
\* yields an empty mapping and changes no entity record.
C7_NoMutation ==
    [][/\ (PairStep /\ (KeyFor(TypeOf(entities[last'.device_id])) = "none"
                          \/ last'.read.datapoints = <<>>))
          => entities' = entities
       /\ NoDataStep
          => /\ entities' = entities
             /\ latest_actions' = EmptyDict
             /\ pc = "ready" => (pc' = "ready" /\ result' = Returned(EmptyDict))
             /\ pc = "households" => pc' = "households"]_vars

C7_Witness ==
    /\ PairDone
    /\ last.read.key = "movement"
    /\ last.read.datapoints = <<>>
    /\ "move" \in DOMAIN entities[last.device_id].data

\* C8: the set of ids in the entity map never loses an element, whatever the
\* operation, and a get_entities call that runs to its end returns the whole
\* map, entities of earlier resolutions included.
C8_EntityMapOnlyGrows ==
    [][/\ DOMAIN entities \subseteq DOMAIN entities'
       /\ (pc = "households" /\ pc' = "ready" /\ op.name = "get_entities")
          => /\ result' = Returned(entities')
             /\ DOMAIN entities \subseteq DOMAIN result'.value]_vars

C8_Witness ==
    /\ pc = "ready"
    /\ op.name = "get_entities"
    /\ result.status = "returned"
    /\ Classifying(op, raw_data)
    /\ \E id \in DOMAIN result.value :
         \A i \in DOMAIN PayloadRecords(raw_data) : PayloadRecords(raw_data)[i].id # id

NoDuplicates(s) == \A i, j \in DOMAIN s : s[i] = s[j] => i = j

\* The household ids of the entities a pass over `records` classifies.
HouseholdsOf(records) ==
    {records[i].household_id : i \in {j \in DOMAIN records : IsMapped(records[j])}}

\* get_entities ran to its end (get_device may still fail its own lookup).
PassCompleted ==
    /\ pc = "ready"
    /\ Classifying(op, raw_data)
    /\ (result.status = "returned" \/ result.line = 326)

FetchesInOrder ==
    op.name \in PassOps =>
        /\ fetched # <<>> =>
             /\ Classifying(op, raw_data)
             /\ Len(inserted) = Len(PayloadRecords(raw_data))
        /\ NoDuplicates(fetched)
        /\ Range(fetched) \subseteq HouseholdsOf(PayloadRecords(raw_data))
        /\ PassCompleted => Range(fetched) = HouseholdsOf(PayloadRecords(raw_data))

\* C9: within one get_entities pass every household report fetch comes after
\* the last record of the payload was classified and stored, a fetch is issued
\* only once the previous report was worked off, and a pass that runs to its
\* end has fetched exactly once each distinct household_id of the entities it
\* classified, and no other household.
C9_OneFetchPerHousehold ==
    [][/\ FetchesInOrder'
       /\ (op'.name \in PassOps /\ fetched' # fetched /\ fetched' # <<>>)
          => (pc = "households" /\ remaining = 0)]_vars

C9_Witness ==
    /\ PassCompleted
    /\ Len(fetched) = 2
    /\ Cardinality(DOMAIN entities) = 2

\* C10: a pairing that names a device_id which is no key of the entity map
\* makes get_actions raise a lookup error that ends the running operation
\* (get_entities included); the pairing is not skipped, and what earlier
\* pairings wrote stays written.
C10_UnknownDeviceRaises ==
    [][(pc = "pairs" /\ last'.ev = "pair" /\ last'.device_id \notin DOMAIN entities)
         => /\ result' = Raised("KeyError", 243)
            /\ pc' = "ready"
            /\ entities' = entities
            /\ latest_actions' = latest_actions]_vars

C10_Witness ==
    /\ op.name = "get_entities"
    /\ result = Raised("KeyError", 243)
    /\ latest_actions # EmptyDict
    /\ \E id \in DOMAIN entities : "move" \in DOMAIN entities[id].data

====
